---- MODULE Spec2Model ----
(***************************************************************************)
(* News_Portal: the role-gated article workflow of articles/views.py, the  *)
(* post_save receiver of articles/signals.py and the reader subscriptions  *)
(* of articles/models.py, as a state machine over the relational store.    *)
(*                                                                         *)
(* One action per view.  A view's action is the whole request: the         *)
(* decorators (login_required, user_passes_test), the lookup               *)
(* (get_object_or_404), the form, the save with its post_save receiver,    *)
(* and the response.                                                       *)
(***************************************************************************)
EXTENDS Integers, Sequences, FiniteSets, TLC

VARIABLES
    users,                  \* CustomUser rows: id -> [role, email]
    publishers,             \* Publisher rows: pk -> [name, owner]
    articles,               \* Article rows: pk -> [title, content, publisher, author, approved]
    nextId,                 \* next Article pk (auto-increment, never reused)
    newsletters,            \* Newsletter rows: pk -> [title, content, author, articles]
    nextNewsletterId,       \* next Newsletter pk (auto-increment, never reused)
    subscribed_publishers,  \* CustomUser.subscribed_publishers: user -> set of Publisher pks
    subscribed_journalists, \* CustomUser.subscribed_journalists: user -> set of user ids
    mailBatches,            \* mail transport: Article pk -> number of runs of the receiver's mailing loop
    mailsSent,              \* mail transport: Article pk -> number of send_mail calls about it
    mailsDelivered,         \* mail transport: Article pk -> number of send_mail calls that delivered
    tweetAttempts,          \* social transport: Article pk -> number of post_to_twitter calls
    tweetsPosted,           \* social transport: Article pk -> number of tweets posted
    tweet,                  \* one call of post_to_twitter: settings, lengths, text, result
    failing,                \* the deliveries that fail: followers whose mail fails, "twitter"
    last,                   \* the request served last and its response
    reqs                    \* requests in flight (interleaved specification only)

vars == <<users, publishers, articles, nextId, newsletters, nextNewsletterId,
          subscribed_publishers, subscribed_journalists, mailBatches, mailsSent,
          mailsDelivered, tweetAttempts, tweetsPosted, tweet, failing, last, reqs>>

store == <<users, publishers, articles, nextId, newsletters, nextNewsletterId,
           subscribed_publishers, subscribed_journalists>>

outbox == <<mailBatches, mailsSent, mailsDelivered, tweetAttempts, tweetsPosted>>

----------------------------------------------------------------------------
(* Bounds of the model *)

MaxArticles == 1

MaxBatches == 2

ArticleIds == 1..MaxArticles

MaxNewsletters == 1
MaxPrefixLen == 48
MaxUrlLen == 40

NewsletterIds == 1..MaxNewsletters

(* The values requests are drawn from.  Accounts and publishers are rows   *)
(* made by register and register_publisher before the first request here.  *)
Anonymous == "anon"

UserIds == {"r1", "r2", "j1", "j2", "e1", "p1"}

PublisherIds == {1, 2}

Titles == {"t1"}

Contents == {"c1", "x"}

(* who may send a request: every account of the store, or nobody logged in *)
Actors == DOMAIN users \cup {Anonymous}

(* the journalist_id of a url: a journalist's, an account's that is no     *)
(* journalist's, or no account's                                           *)
JournalistIdInputs ==
    {u \in DOMAIN users : users[u].role \in {"journalist", "editor"}} \cup {"ghost"}

----------------------------------------------------------------------------
(* Role check helpers: views.py is_editor / is_journalist / is_reader /    *)
(* is_publisher.  AnonymousUser.is_authenticated is False.                 *)

is_authenticated(u) == u \in DOMAIN users

role_of(u) == IF u \in DOMAIN users THEN users[u].role ELSE "none"

is_editor_any_account(u) == is_authenticated(u)

is_editor(u) == is_authenticated(u) /\ role_of(u) = "editor"

is_journalist(u) == is_authenticated(u) /\ role_of(u) = "journalist"

is_reader_any_account(u) == is_authenticated(u)

is_reader(u) == is_authenticated(u) /\ role_of(u) = "reader"

is_publisher(u) == is_authenticated(u) /\ role_of(u) = "publisher"

----------------------------------------------------------------------------
(* Responses *)

(* status, then the redirect target, the template or the detail message,   *)
(* then the JSON array of a listing (article pks; empty on other answers)  *)
Resp(status, detail) == [status |-> status, detail |-> detail, data |-> <<>>]

redirect(to) == Resp(302, to)

render(template) == Resp(200, template)

Http404 == Resp(404, "Not Found")

LoginRedirect == redirect("login")

(* request.POST of a request whose form was not saved *)
NoForm == [title |-> "", content |-> "", publisher |-> 0, author |-> "", approved |-> FALSE]

(* The request served: the view, the acting user, the pk of the url (0 when *)
(* the url has none), the journalist_id of the url ("" when it has none),  *)
(* the response, and the request.POST of a form that was saved.            *)
Served(op, user, pk, target, resp) ==
    [op |-> op, user |-> user, pk |-> pk, target |-> target, resp |-> resp,
     posted |-> NoForm]

Saved(op, user, pk, resp, form) ==
    [Served(op, user, pk, "", resp) EXCEPT !.posted = form]

NoRequest == Served("none", "", 0, "", Resp(0, ""))

(* login_required / user_passes_test answer for the view: the view is not  *)
(* called, nothing of the url is looked up, and the request is recorded    *)
(* with the view's name and the redirect to the login page alone.          *)
Refused(op) == Served(op, "", 0, "", LoginRedirect)

----------------------------------------------------------------------------
(* signals.py notify_followers_on_approval: post_save receiver of Article. *)

(* instance.author.followers.all(): the users who hold author in their     *)
(* subscribed_journalists (related_name="followers").                      *)
followers(author) == {u \in DOMAIN users : author \in subscribed_journalists[u]}

(* the followers the loop mails: `if user.email` *)
Recipients(author) == {u \in followers(author) : users[u].email # ""}

(* `if instance.approved:` -- the receiver mails on a save of an approved  *)
(* instance.                                                               *)
ReceiverMails(instance) == instance.approved

MailAttemptsUntilFailure(recipients) ==
    IF recipients \cap failing # {} THEN {} ELSE recipients

(* The followers send_mail is called for.  The try/except is inside the    *)
(* loop and send_mail is called with fail_silently=True: a send that fails *)
(* is printed and the loop goes on to the next follower.                   *)
MailAttempts(recipients) == recipients

notify_followers_on_approval(pk, instance) ==
    IF ReceiverMails(instance)
    THEN LET attempts == MailAttempts(Recipients(instance.author)) IN
         /\ mailBatches' = [mailBatches EXCEPT ![pk] = @ + 1]
         /\ mailsSent' = [mailsSent EXCEPT ![pk] = @ + Cardinality(attempts)]
         /\ mailsDelivered' = [mailsDelivered EXCEPT ![pk] = @ + Cardinality(attempts \ failing)]
    ELSE UNCHANGED <<mailBatches, mailsSent, mailsDelivered>>

(* The mail a save would hand to the transport fits the model's bound.     *)
MailFits(pk, instance) == ReceiverMails(instance) => mailBatches[pk] < MaxBatches

(* Model.save(): writes every field of the instance to the row, then runs  *)
(* the post_save receiver.                                                 *)
SaveArticle(pk, instance) ==
    /\ MailFits(pk, instance)
    /\ articles' = IF pk \in DOMAIN articles
                   THEN [articles EXCEPT ![pk] = instance]
                   ELSE [a \in DOMAIN articles \cup {pk} |->
                            IF a = pk THEN instance ELSE articles[a]]
    /\ notify_followers_on_approval(pk, instance)

DeleteUnapprovedOnly(pk) ==
    /\ articles' = [a \in {x \in DOMAIN articles : x # pk \/ articles[x].approved} |->
                       articles[a]]
    /\ newsletters' = newsletters

(* Model.delete() of an Article row, with the rows of Newsletter.articles  *)
(* that point to it.                                                       *)
DeleteArticle(pk) ==
    /\ articles' = [a \in DOMAIN articles \ {pk} |-> articles[a]]
    /\ newsletters' = [n \in DOMAIN newsletters |->
                          [newsletters[n] EXCEPT !.articles = @ \ {pk}]]

(* utils.py post_to_twitter is called once, inside try/except: one attempt *)
(* on the social transport.  It returns False without a tweet when posting *)
(* is disabled, a setting is missing or the client raises; the view does   *)
(* not read what it returns.                                               *)
PostToTwitter(pk) ==
    /\ tweetAttempts' = [tweetAttempts EXCEPT ![pk] = @ + 1]
    /\ tweetsPosted' = IF "twitter" \in failing
                       THEN tweetsPosted
                       ELSE [tweetsPosted EXCEPT ![pk] = @ + 1]

----------------------------------------------------------------------------
(* utils.py post_to_twitter: the text of the announcement.  Strings are    *)
(* modelled by their lengths (len() counts code points; the ellipsis is    *)
(* one).  The prefix and the title carry no white space at their ends.     *)

TweetLimit == 280
TruncationBudget == 276
MaxTitleLen == 200
SchemeLen == 8
EllipsisLen == 1

Min(a, b) == IF a <= b THEN a ELSE b
Max(a, b) == IF a >= b THEN a ELSE b

(* len(f"{prefix} {article.title} {url}".strip()): the url is never empty, *)
(* so strip() removes only the leading spaces an empty prefix (and title)  *)
(* leaves.                                                                 *)
JoinedLen(prefix, title, url) ==
    LET leading == IF prefix > 0 THEN 0 ELSE IF title > 0 THEN 1 ELSE 2
    IN  prefix + 1 + title + 1 + url - leading

(* len(f"{prefix} {article.title[:allowed_len]}... {url}"), not stripped *)
TruncatedLen(prefix, title, url) ==
    LET allowed_len == Max(0, TruncationBudget - url)
    IN  prefix + 1 + Min(title, allowed_len) + EllipsisLen + 1 + url

tweet_text(prefix, title, url) ==
    IF JoinedLen(prefix, title, url) > TweetLimit
    THEN TruncatedLen(prefix, title, url)
    ELSE JoinedLen(prefix, title, url)

(* settings: TWITTER_ENABLED off, a required key missing, or all present *)
TwitterSettings == {"disabled", "missing_key", "ready"}

Tweet(settings, prefix, title, url) ==
    [settings |-> settings, prefix |-> prefix, title |-> title, url |-> url,
     text |-> 0, result |-> "pending"]

NoTweet == [Tweet("disabled", 0, 0, SchemeLen) EXCEPT !.result = "none"]

(* utils.py post_to_twitter, whole: False when posting is disabled, False  *)
(* from the except clause when a key is missing, else the text is built    *)
(* and handed to client.create_tweet.                                      *)
post_to_twitter ==
    /\ tweet.result = "pending"
    /\ tweet' = IF tweet.settings = "disabled"
                THEN [tweet EXCEPT !.result = "disabled"]
                ELSE IF tweet.settings = "missing_key"
                THEN [tweet EXCEPT !.result = "failed"]
                ELSE [tweet EXCEPT !.text = tweet_text(tweet.prefix, tweet.title, tweet.url),
                                   !.result = "posted"]
    /\ UNCHANGED <<store, outbox, failing, last, reqs>>

----------------------------------------------------------------------------
(* forms.py ArticleForm: fields title, content, publisher.  The publisher  *)
(* choice must be a row of Publisher.objects.all().                        *)

(* request.POST may carry keys that are no fields of the form.  Here: none *)
(* (author "", approved FALSE), or an author key naming a journalist other *)
(* than owner, the one the view assigns, together with approved=on.        *)
ExtraKeys(owner) ==
    {[author |-> "", approved |-> FALSE]} \cup
    {[author |-> a, approved |-> TRUE] :
        a \in {x \in DOMAIN users : users[x].role = "journalist" /\ x # owner}}

ArticleForms(owner) ==
    {[title |-> t, content |-> c, publisher |-> p,
      author |-> e.author, approved |-> e.approved] :
        t \in Titles, c \in Contents, p \in DOMAIN publishers \cup {0},
        e \in ExtraKeys(owner)}

ArticleFormValid(form) == form.publisher \in DOMAIN publishers

(* request.method with request.POST: a GET, or a POST carrying form data.  *)
Get == [method |-> "GET"]

Post(form) == [method |-> "POST", form |-> form]

ArticleRequests(owner) == {Get} \cup {Post(f) : f \in ArticleForms(owner)}

PlainRequests == {Get, [method |-> "POST"]}

ApplyArticleFormWithApproved(instance, form) ==
    [instance EXCEPT !.title = form.title, !.content = form.content,
                     !.publisher = form.publisher, !.approved = FALSE]

ApplyArticleFormKeepingContent(instance, form) ==
    [instance EXCEPT !.title = form.title, !.publisher = form.publisher]

(* ModelForm.save(commit=False): the form's fields laid over the instance; *)
(* author and approved are not fields of the form.                         *)
ApplyArticleForm(instance, form) ==
    [instance EXCEPT !.title = form.title, !.content = form.content,
                     !.publisher = form.publisher]

NewArticleAsPosted(form, author) ==
    [title |-> form.title, content |-> form.content, publisher |-> form.publisher,
     author |-> IF form.author # "" THEN form.author ELSE author,
     approved |-> form.approved]

(* A new Article(): approved defaults to False (models.py). *)
NewArticle(form, author) ==
    [title |-> form.title, content |-> form.content, publisher |-> form.publisher,
     author |-> author, approved |-> FALSE]

----------------------------------------------------------------------------
(* The views.  An action is a whole request of actor u: the decorators,    *)
(* then the url's pk and its lookup, then the method and the form data.    *)
(* The url and the form data are inputs of the request, drawn where the    *)
(* view first reads them.                                                  *)

(* views.py create_article *)
create_article(u) ==
    /\ UNCHANGED <<failing, tweet, newsletters, nextNewsletterId,
                   users, publishers, subscribed_publishers, subscribed_journalists,
                   tweetAttempts, tweetsPosted, reqs>>
    /\ IF ~is_journalist(u)
       THEN /\ last' = Refused("create_article")
            /\ UNCHANGED <<articles, nextId, mailBatches, mailsSent, mailsDelivered>>
       ELSE \E request \in ArticleRequests(u) :
              IF request.method = "POST" /\ ArticleFormValid(request.form)
              THEN /\ nextId <= MaxArticles
                   /\ SaveArticle(nextId, NewArticle(request.form, u))
                   /\ nextId' = nextId + 1
                   /\ last' = Saved("create_article", u, nextId,
                                    redirect("journalist_article_list"), request.form)
              ELSE /\ last' = Served("create_article", u, 0, "", render("form.html"))
                   /\ UNCHANGED <<articles, nextId, mailBatches, mailsSent, mailsDelivered>>

AnyArticle(u, pk) == pk \in DOMAIN articles

(* get_object_or_404(Article, pk=pk, author=request.user) finds a row *)
OwnArticle(u, pk) == pk \in DOMAIN articles /\ articles[pk].author = u

(* views.py journalist_article_update (the second definition, which is the *)
(* one the module ends up with)                                            *)
journalist_article_update(u) ==
    /\ UNCHANGED <<failing, tweet, newsletters, nextNewsletterId,
                   users, publishers, nextId, subscribed_publishers,
                   subscribed_journalists, tweetAttempts, tweetsPosted, reqs>>
    /\ IF ~is_journalist(u)
       THEN /\ last' = Refused("journalist_article_update")
            /\ UNCHANGED <<articles, mailBatches, mailsSent, mailsDelivered>>
       ELSE \E pk \in ArticleIds :
              IF ~OwnArticle(u, pk)
              THEN /\ last' = Served("journalist_article_update", u, pk, "", Http404)
                   /\ UNCHANGED <<articles, mailBatches, mailsSent, mailsDelivered>>
              ELSE \E request \in ArticleRequests(articles[pk].author) :
                     IF request.method = "POST" /\ ArticleFormValid(request.form)
                     THEN /\ SaveArticle(pk, ApplyArticleForm(articles[pk], request.form))
                          /\ last' = Saved("journalist_article_update", u, pk,
                                           redirect("journalist_article_list"),
                                           request.form)
                     ELSE /\ last' = Served("journalist_article_update", u, pk, "",
                                            render("form.html"))
                          /\ UNCHANGED <<articles, mailBatches, mailsSent, mailsDelivered>>

(* views.py journalist_article_delete *)
journalist_article_delete(u) ==
    /\ UNCHANGED <<failing, tweet, nextNewsletterId,
                   users, publishers, nextId, subscribed_publishers,
                   subscribed_journalists, outbox, reqs>>
    /\ IF ~is_journalist(u)
       THEN /\ last' = Refused("journalist_article_delete")
            /\ UNCHANGED <<articles, newsletters>>
       ELSE \E pk \in ArticleIds :
              IF ~OwnArticle(u, pk)
              THEN /\ last' = Served("journalist_article_delete", u, pk, "", Http404)
                   /\ UNCHANGED <<articles, newsletters>>
              ELSE \E request \in PlainRequests :
                     IF request.method = "POST"
                     THEN /\ DeleteArticle(pk)
                          /\ last' = Served("journalist_article_delete", u, pk, "",
                                            redirect("journalist_article_list"))
                     ELSE /\ last' = Served("journalist_article_delete", u, pk, "",
                                            render("confirm_delete.html"))
                          /\ UNCHANGED <<articles, newsletters>>

ApprovesAgain(article) == TRUE

(* `if not article.approved:  # prevent re-approving` *)
NeedsApproval(article) == ~article.approved

(* views.py approve_article: no test of request.method, a GET approves too *)
approve_article(u) ==
    /\ UNCHANGED <<failing, tweet, newsletters, nextNewsletterId,
                   users, publishers, nextId, subscribed_publishers,
                   subscribed_journalists, reqs>>
    /\ IF ~is_editor(u)
       THEN /\ last' = Refused("approve_article")
            /\ UNCHANGED <<articles, outbox>>
       ELSE \E pk \in ArticleIds :
              IF pk \notin DOMAIN articles
              THEN /\ last' = Served("approve_article", u, pk, "", Http404)
                   /\ UNCHANGED <<articles, outbox>>
              ELSE /\ IF NeedsApproval(articles[pk])
                      THEN /\ SaveArticle(pk, [articles[pk] EXCEPT !.approved = TRUE])
                           /\ PostToTwitter(pk)
                      ELSE UNCHANGED <<articles, outbox>>
                   /\ last' = Served("approve_article", u, pk, "",
                                     redirect("editor_dashboard"))

(* views.py update_article (editors).  `updated_article.author =           *)
(* article.author` assigns the instance's own author: form.save(commit=    *)
(* False) returns the instance the form was built on.                      *)
update_article(u) ==
    /\ UNCHANGED <<failing, tweet, newsletters, nextNewsletterId,
                   users, publishers, nextId, subscribed_publishers,
                   subscribed_journalists, tweetAttempts, tweetsPosted, reqs>>
    /\ IF ~is_editor(u)
       THEN /\ last' = Refused("update_article")
            /\ UNCHANGED <<articles, mailBatches, mailsSent, mailsDelivered>>
       ELSE \E pk \in ArticleIds :
              IF pk \notin DOMAIN articles
              THEN /\ last' = Served("update_article", u, pk, "", Http404)
                   /\ UNCHANGED <<articles, mailBatches, mailsSent, mailsDelivered>>
              ELSE \E request \in ArticleRequests(articles[pk].author) :
                     IF request.method = "POST" /\ ArticleFormValid(request.form)
                     THEN /\ SaveArticle(pk, [ApplyArticleForm(articles[pk], request.form)
                                                 EXCEPT !.author = articles[pk].author])
                          /\ last' = Saved("update_article", u, pk,
                                           redirect("editor_dashboard"), request.form)
                     ELSE /\ last' = Served("update_article", u, pk, "", render("form.html"))
                          /\ UNCHANGED <<articles, mailBatches, mailsSent, mailsDelivered>>

EditorMayDeleteAny(article) == TRUE

(* `if not article.approved: article.delete()` *)
EditorMayDelete(article) == ~article.approved

(* views.py delete_article (editors) *)
delete_article(u) ==
    /\ UNCHANGED <<failing, tweet, nextNewsletterId,
                   users, publishers, nextId, subscribed_publishers,
                   subscribed_journalists, outbox, reqs>>
    /\ IF ~is_editor(u)
       THEN /\ last' = Refused("delete_article")
            /\ UNCHANGED <<articles, newsletters>>
       ELSE \E pk \in ArticleIds :
              IF pk \notin DOMAIN articles
              THEN /\ last' = Served("delete_article", u, pk, "", Http404)
                   /\ UNCHANGED <<articles, newsletters>>
              ELSE \E request \in PlainRequests :
                     IF request.method = "POST"
                     THEN /\ IF EditorMayDelete(articles[pk])
                             THEN DeleteArticle(pk)
                             ELSE UNCHANGED <<articles, newsletters>>
                          /\ last' = Served("delete_article", u, pk, "",
                                            redirect("editor_dashboard"))
                     ELSE /\ last' = Served("delete_article", u, pk, "",
                                            render("confirm_delete.html"))
                          /\ UNCHANGED <<articles, newsletters>>

----------------------------------------------------------------------------
(* forms.py CustomUserCreationForm: fields username, email, role (and the  *)
(* two password fields of UserCreationForm).                               *)

(* the usernames registrations are sent with: a new one, and r1's *)
Usernames == {"n1", "r1"}

Roles == {"reader", "editor", "journalist", "publisher"}

UserForms == [username : Usernames, email : {"n1@example.org"}, role : Roles]

UsernameNeverTaken(username) == FALSE

(* AbstractUser.username, unique=True: a row with the username exists *)
UsernameTaken(username) == username \in DOMAIN users

(* form.is_valid(): the username is not taken *)
UserFormValid(form) == ~UsernameTaken(form.username)

UserRequests == {Get} \cup {Post(f) : f \in UserForms}

(* a relation of the new user's, laid beside the other users': no row *)
WithNoRows(relation, username) ==
    [x \in DOMAIN relation \cup {username} |->
        IF x = username THEN {} ELSE relation[x]]

(* views.py register: no decorator; form.save() writes a CustomUser row    *)
(* with the role of the form, and login() starts the new user's session.   *)
register(u) ==
    /\ UNCHANGED <<publishers, articles, nextId, newsletters, nextNewsletterId,
                   outbox, failing, tweet, reqs>>
    /\ \E request \in UserRequests :
          IF request.method = "POST" /\ UserFormValid(request.form)
          THEN /\ users' = [x \in DOMAIN users \cup {request.form.username} |->
                               IF x = request.form.username
                               THEN [role |-> request.form.role,
                                     email |-> request.form.email]
                               ELSE users[x]]
               /\ subscribed_publishers' =
                     WithNoRows(subscribed_publishers, request.form.username)
               /\ subscribed_journalists' =
                     WithNoRows(subscribed_journalists, request.form.username)
               /\ last' = Saved("register", u, 0, redirect("home"), request.form)
          ELSE /\ last' = Served("register", u, 0, "", render("register.html"))
               /\ UNCHANGED <<users, subscribed_publishers, subscribed_journalists>>

----------------------------------------------------------------------------
(* forms.py PublisherForm: fields name, description.  request.POST may     *)
(* carry an owner key, which is no field of the form: none (""), or one    *)
(* naming a reader.                                                        *)

PublisherNames == {"Daily Times", "Weekly Post"}

PublisherForms ==
    [name : PublisherNames,
     owner : {""} \cup {x \in DOMAIN users : users[x].role = "reader"}]

(* models.py Publisher.name, unique=True: a row with the name exists *)
NameTaken(name) == \E p \in DOMAIN publishers : publishers[p].name = name

(* form.is_valid(): ModelForm validation runs validate_unique, a query for *)
(* a row with the name                                                     *)
PublisherFormValid(form) == ~NameTaken(form.name)

PublisherRequests == {Get} \cup {Post(f) : f \in PublisherForms}

NewPublisherOwnedAsPosted(form, owner) ==
    [name |-> form.name, owner |-> IF form.owner # "" THEN form.owner ELSE owner]

(* publisher = form.save(commit=False); publisher.owner = request.user *)
NewPublisher(form, owner) == [name |-> form.name, owner |-> owner]

(* the pk of the next Publisher row (no view deletes one) *)
NextPublisherId == Cardinality(DOMAIN publishers) + 1

(* publisher.save(): the INSERT, which the unique index on name refuses    *)
(* when a row with the name is in the table                                *)
InsertPublisher(publisher) ==
    /\ NextPublisherId \in PublisherIds
    /\ publishers' = [p \in DOMAIN publishers \cup {NextPublisherId} |->
                         IF p = NextPublisherId THEN publisher ELSE publishers[p]]

(* views.py register_publisher *)
register_publisher(u) ==
    /\ UNCHANGED <<users, articles, nextId, newsletters, nextNewsletterId,
                   subscribed_publishers, subscribed_journalists, outbox, failing, tweet, reqs>>
    /\ IF ~is_publisher(u)
       THEN /\ last' = Refused("register_publisher")
            /\ UNCHANGED publishers
       ELSE \E request \in PublisherRequests :
              IF request.method = "POST" /\ PublisherFormValid(request.form)
              THEN /\ InsertPublisher(NewPublisher(request.form, u))
                   /\ last' = Saved("register_publisher", u, NextPublisherId,
                                    redirect("home"), request.form)
              ELSE /\ last' = Served("register_publisher", u, 0, "",
                                     render("register_publisher.html"))
                   /\ UNCHANGED publishers

----------------------------------------------------------------------------
(* forms.py NewsletterForm: fields title, content, articles.  Each choice  *)
(* of articles must be a row of Article.                                   *)

NewsletterForms == [title : Titles, content : Contents, articles : SUBSET ArticleIds]

NewsletterFormValid(form) == form.articles \subseteq DOMAIN articles

NewsletterRequests == {Get} \cup {Post(f) : f \in NewsletterForms}

(* form.save(commit=False); newsletter.author = request.user;              *)
(* newsletter.save(); form.save_m2m() -- on a new instance and on the      *)
(* instance of newsletter_update alike                                     *)
NewsletterOf(form, user) ==
    [title |-> form.title, content |-> form.content, author |-> user,
     articles |-> form.articles]

(* views.py newsletter_create *)
newsletter_create(u) ==
    /\ UNCHANGED <<users, publishers, articles, nextId, subscribed_publishers,
                   subscribed_journalists, outbox, failing, tweet, reqs>>
    /\ IF ~is_journalist(u)
       THEN /\ last' = Refused("newsletter_create")
            /\ UNCHANGED <<newsletters, nextNewsletterId>>
       ELSE \E request \in NewsletterRequests :
              IF request.method = "POST" /\ NewsletterFormValid(request.form)
              THEN /\ nextNewsletterId <= MaxNewsletters
                   /\ newsletters' =
                         [n \in DOMAIN newsletters \cup {nextNewsletterId} |->
                            IF n = nextNewsletterId
                            THEN NewsletterOf(request.form, u)
                            ELSE newsletters[n]]
                   /\ nextNewsletterId' = nextNewsletterId + 1
                   /\ last' = Served("newsletter_create", u, nextNewsletterId, "",
                                     redirect("newsletter_list"))
              ELSE /\ last' = Served("newsletter_create", u, 0, "", render("form.html"))
                   /\ UNCHANGED <<newsletters, nextNewsletterId>>

(* redirect("journalist_newsletter_list"): urls.py has no route of that    *)
(* name, so reverse() raises NoReverseMatch and the request is answered    *)
(* 500, after newsletter.delete() was carried out.                         *)
NoReverseMatch == Resp(500, "NoReverseMatch: journalist_newsletter_list")

(* views.py newsletter_delete: no login_required, no user_passes_test, and *)
(* the lookup is by pk alone                                               *)
newsletter_delete(u) ==
    /\ UNCHANGED <<users, publishers, articles, nextId, nextNewsletterId,
                   subscribed_publishers, subscribed_journalists, outbox, failing, tweet, reqs>>
    /\ \E pk \in NewsletterIds :
          IF pk \notin DOMAIN newsletters
          THEN /\ last' = Served("newsletter_delete", u, pk, "", Http404)
               /\ UNCHANGED newsletters
          ELSE \E request \in PlainRequests :
                 IF request.method = "POST"
                 THEN /\ newsletters' = [n \in DOMAIN newsletters \ {pk} |-> newsletters[n]]
                      /\ last' = Served("newsletter_delete", u, pk, "", NoReverseMatch)
                 ELSE /\ last' = Served("newsletter_delete", u, pk, "",
                                        render("articles/newsletter_confirm_delete.html"))
                      /\ UNCHANGED newsletters

(* views.py newsletter_update: any journalist, the lookup is by pk alone,  *)
(* and the saved row gets author = request.user                            *)
newsletter_update(u) ==
    /\ UNCHANGED <<users, publishers, articles, nextId, nextNewsletterId,
                   subscribed_publishers, subscribed_journalists, outbox, failing, tweet, reqs>>
    /\ IF ~is_journalist(u)
       THEN /\ last' = Refused("newsletter_update")
            /\ UNCHANGED newsletters
       ELSE \E pk \in NewsletterIds :
              IF pk \notin DOMAIN newsletters
              THEN /\ last' = Served("newsletter_update", u, pk, "", Http404)
                   /\ UNCHANGED newsletters
              ELSE \E request \in NewsletterRequests :
                     IF request.method = "POST" /\ NewsletterFormValid(request.form)
                     THEN /\ newsletters' =
                               [newsletters EXCEPT ![pk] = NewsletterOf(request.form, u)]
                          /\ last' = Served("newsletter_update", u, pk, "",
                                            redirect("newsletter_list"))
                     ELSE /\ last' = Served("newsletter_update", u, pk, "",
                                            render("articles/newsletter_form.html"))
                          /\ UNCHANGED newsletters

----------------------------------------------------------------------------
(* ManyToManyField add / remove: the relation is a set of rows, add of a   *)
(* related object already there inserts nothing, remove of one not there   *)
(* deletes nothing.                                                        *)
m2m_toggle(set, obj) == IF obj \in set THEN set \ {obj} ELSE set \cup {obj}

m2m_add(set, obj) == set \cup {obj}

m2m_remove(set, obj) == set \ {obj}

AccountFound(id) == id \in DOMAIN users

(* get_object_or_404(CustomUser, id=journalist_id, role="journalist") *)
JournalistFound(id) == id \in DOMAIN users /\ users[id].role = "journalist"

(* the pk of a publisher url: a row's, or no row's *)
PublisherPkInputs == DOMAIN publishers \cup {0}

(* views.py subscribe_publisher *)
subscribe_publisher(u) ==
    /\ UNCHANGED <<failing, tweet, newsletters, nextNewsletterId,
                   users, publishers, articles, nextId, subscribed_journalists, outbox, reqs>>
    /\ IF ~is_reader(u)
       THEN /\ last' = Refused("subscribe_publisher")
            /\ UNCHANGED subscribed_publishers
       ELSE \E pk \in PublisherPkInputs :
              IF pk \notin DOMAIN publishers
              THEN /\ last' = Served("subscribe_publisher", u, pk, "", Http404)
                   /\ UNCHANGED subscribed_publishers
              ELSE /\ subscribed_publishers' =
                          [subscribed_publishers EXCEPT ![u] = m2m_add(@, pk)]
                   /\ last' = Served("subscribe_publisher", u, pk, "",
                                     redirect("subscriptions"))

(* views.py unsubscribe_publisher *)
unsubscribe_publisher(u) ==
    /\ UNCHANGED <<failing, tweet, newsletters, nextNewsletterId,
                   users, publishers, articles, nextId, subscribed_journalists, outbox, reqs>>
    /\ IF ~is_reader(u)
       THEN /\ last' = Refused("unsubscribe_publisher")
            /\ UNCHANGED subscribed_publishers
       ELSE \E pk \in PublisherPkInputs :
              IF pk \notin DOMAIN publishers
              THEN /\ last' = Served("unsubscribe_publisher", u, pk, "", Http404)
                   /\ UNCHANGED subscribed_publishers
              ELSE /\ subscribed_publishers' =
                          [subscribed_publishers EXCEPT ![u] = m2m_remove(@, pk)]
                   /\ last' = Served("unsubscribe_publisher", u, pk, "",
                                     redirect("subscriptions"))

(* views.py subscribe_journalist *)
subscribe_journalist(u) ==
    /\ UNCHANGED <<failing, tweet, newsletters, nextNewsletterId,
                   users, publishers, articles, nextId, subscribed_publishers, outbox, reqs>>
    /\ IF ~is_reader(u)
       THEN /\ last' = Refused("subscribe_journalist")
            /\ UNCHANGED subscribed_journalists
       ELSE \E journalist_id \in JournalistIdInputs \cup {u} :
              IF ~JournalistFound(journalist_id)
              THEN /\ last' = Served("subscribe_journalist", u, 0, journalist_id, Http404)
                   /\ UNCHANGED subscribed_journalists
              ELSE /\ subscribed_journalists' =
                          [subscribed_journalists EXCEPT ![u] = m2m_add(@, journalist_id)]
                   /\ last' = Served("subscribe_journalist", u, 0, journalist_id,
                                     redirect("subscriptions"))

(* views.py unsubscribe_journalist *)
unsubscribe_journalist(u) ==
    /\ UNCHANGED <<failing, tweet, newsletters, nextNewsletterId,
                   users, publishers, articles, nextId, subscribed_publishers, outbox, reqs>>
    /\ IF ~is_reader(u)
       THEN /\ last' = Refused("unsubscribe_journalist")
            /\ UNCHANGED subscribed_journalists
       ELSE \E journalist_id \in JournalistIdInputs :
              IF ~JournalistFound(journalist_id)
              THEN /\ last' = Served("unsubscribe_journalist", u, 0, journalist_id, Http404)
                   /\ UNCHANGED subscribed_journalists
              ELSE /\ subscribed_journalists' =
                          [subscribed_journalists EXCEPT ![u] = m2m_remove(@, journalist_id)]
                   /\ last' = Served("unsubscribe_journalist", u, 0, journalist_id,
                                     redirect("subscriptions"))

----------------------------------------------------------------------------
(* views.py get_subscribed_articles.  The module imports (views.py 1-11)   *)
(* bind no name Q, so the reader branch raises NameError at `Q(...)`       *)
(* before any query is built; REST framework's handler leaves it to        *)
(* Django, which answers 500.  An anonymous request is stopped by          *)
(* IsAuthenticated.                                                        *)
(* order_by("-id") over the article pks *)
NewestFirst == [i \in 1..MaxArticles |-> MaxArticles + 1 - i]

(* views.py home: filter(approved=True) *)
Listed(article) == article.approved

(* views.py home: no gate.  The context holds the approved articles,       *)
(* newest first, and a reader's own subscriptions (empty lists for anyone  *)
(* else).                                                                  *)
home(u) ==
    /\ UNCHANGED <<store, outbox, failing, tweet, reqs>>
    /\ last' = Served("home", u, 0, "",
                      [render("homepage.html") EXCEPT !.data =
                          [articles |-> SelectSeq(NewestFirst,
                                           LAMBDA pk : /\ pk \in DOMAIN articles
                                                       /\ Listed(articles[pk])),
                           subscribed_publishers |->
                               IF is_authenticated(u) /\ is_reader(u)
                               THEN subscribed_publishers[u] ELSE {},
                           subscribed_journalists |->
                               IF is_authenticated(u) /\ is_reader(u)
                               THEN subscribed_journalists[u] ELSE {}]])

NotAuthenticated == Resp(403, "Authentication credentials were not provided.")

OnlyReaders == Resp(403, "Only readers can access subscribed articles.")

NameErrorQ == Resp(500, "NameError: name 'Q' is not defined")

get_subscribed_articles(u) ==
    /\ UNCHANGED <<store, outbox, failing, tweet, reqs>>
    /\ last' = Served("get_subscribed_articles", u, 0, "",
                      IF ~is_authenticated(u) THEN NotAuthenticated
                      ELSE IF is_reader(u) THEN NameErrorQ
                      ELSE OnlyReaders)

----------------------------------------------------------------------------
(* The store as the first request finds it: accounts made by register (r2 *)
(* registered without an e-mail address), publishers made by               *)
(* register_publisher, no article, no subscription, nothing handed to the  *)
(* transports.                                                             *)
Account(role, email) == [role |-> role, email |-> email]

Accounts ==
    [u \in UserIds |->
        CASE u = "r1" -> Account("reader", "r1@example.org")
          [] u = "r2" -> Account("reader", "")
          [] u = "j1" -> Account("journalist", "j1@example.org")
          [] u = "j2" -> Account("journalist", "")
          [] u = "e1" -> Account("editor", "e1@example.org")
          [] u = "p1" -> Account("publisher", "p1@example.org")]

Houses ==
    [p \in PublisherIds |->
        [name |-> IF p = 1 THEN "Daily Times" ELSE "Weekly Post", owner |-> "p1"]]

Restrict(f, S) == [x \in S |-> f[x]]

InitWith(accounts, houses) ==
    /\ users = accounts
    /\ publishers = houses
    /\ articles = <<>>
    /\ nextId = 1
    /\ subscribed_publishers = [u \in DOMAIN accounts |-> {}]
    /\ subscribed_journalists = [u \in DOMAIN accounts |-> {}]
    /\ newsletters = <<>>
    /\ nextNewsletterId = 1
    /\ mailBatches = [a \in ArticleIds |-> 0]
    /\ mailsSent = [a \in ArticleIds |-> 0]
    /\ mailsDelivered = [a \in ArticleIds |-> 0]
    /\ tweetAttempts = [a \in ArticleIds |-> 0]
    /\ tweetsPosted = [a \in ArticleIds |-> 0]
    /\ last = NoRequest
    /\ reqs = <<>>

(* the article workflow: one journalist, two readers, one editor, and the   *)
(* owner of the one publisher                                              *)
(* Both transports deliver.                                                *)
Init ==
    /\ InitWith(Restrict(Accounts, UserIds \ {"j2"}), Restrict(Houses, {1}))
    /\ failing = {}
    /\ tweet = NoTweet

Next ==
    \/ \E u \in Actors : create_article(u)
    \/ \E u \in Actors : journalist_article_update(u)
    \/ \E u \in Actors : journalist_article_delete(u)
    \/ \E u \in Actors : approve_article(u)
    \/ \E u \in Actors : update_article(u)
    \/ \E u \in Actors : delete_article(u)
    \/ \E u \in Actors : subscribe_journalist(u)
    \/ \E u \in Actors : unsubscribe_journalist(u)
    \/ \E u \in Actors : get_subscribed_articles(u)

Spec == Init /\ [][Next]_vars

(* the reader subscriptions: every account, both publishers *)
InitSub ==
    /\ InitWith(Accounts, Houses)
    /\ failing = {}
    /\ tweet = NoTweet

NextSub ==
    \/ \E u \in Actors : subscribe_publisher(u)
    \/ \E u \in Actors : unsubscribe_publisher(u)
    \/ \E u \in Actors : subscribe_journalist(u)
    \/ \E u \in Actors : unsubscribe_journalist(u)
    \/ \E u \in Actors : get_subscribed_articles(u)

SpecSub == InitSub /\ [][NextSub]_vars

(* the newsroom: two journalists, one editor, a reader and the owner of    *)
(* the one publisher; nobody follows anybody                               *)
InitDesk ==
    /\ InitWith(Restrict(Accounts, UserIds \ {"r2"}), Restrict(Houses, {1}))
    /\ failing = {}
    /\ tweet = NoTweet

NextDesk ==
    \/ \E u \in Actors : create_article(u)
    \/ \E u \in Actors : journalist_article_update(u)
    \/ \E u \in Actors : journalist_article_delete(u)
    \/ \E u \in Actors : approve_article(u)
    \/ \E u \in Actors : update_article(u)
    \/ \E u \in Actors : delete_article(u)

SpecDesk == InitDesk /\ [][NextDesk]_vars

(* the newsletters of the newsroom *)
NextNews ==
    \/ \E u \in Actors : create_article(u)
    \/ \E u \in Actors : newsletter_create(u)
    \/ \E u \in Actors : newsletter_update(u)
    \/ \E u \in Actors : newsletter_delete(u)

SpecNews == InitDesk /\ [][NextNews]_vars

(* the publishing houses: no Publisher row yet, the accounts of the four   *)
(* roles and the second reader                                             *)
InitPub ==
    /\ InitWith(Restrict(Accounts, UserIds \ {"j2"}), <<>>)
    /\ failing = {}
    /\ tweet = NoTweet

NextPub ==
    \/ \E u \in Actors : register_publisher(u)
    \/ \E u \in Actors : subscribe_publisher(u)
    \/ \E u \in Actors : unsubscribe_publisher(u)

SpecPub == InitPub /\ [][NextPub]_vars

(* registration and the subscriptions: a reader, a journalist, an editor,  *)
(* the owner of the one publisher, and whoever registers                   *)
InitReg ==
    /\ InitWith(Restrict(Accounts, {"r1", "j1", "e1", "p1"}), Restrict(Houses, {1}))
    /\ failing = {}
    /\ tweet = NoTweet

NextReg ==
    \/ \E u \in Actors : register(u)
    \/ \E u \in Actors : subscribe_publisher(u)
    \/ \E u \in Actors : unsubscribe_publisher(u)
    \/ \E u \in Actors : subscribe_journalist(u)
    \/ \E u \in Actors : unsubscribe_journalist(u)

SpecReg == InitReg /\ [][NextReg]_vars

(* deliveries that fail: both readers registered with an address, and any  *)
(* of the two mails and the tweet may fail for the whole run               *)
Deliveries == {"r1", "r2", "twitter"}

InitFail ==
    /\ InitWith(Restrict([Accounts EXCEPT !["r2"].email = "r2@example.org"],
                         {"r1", "r2", "j1", "e1"}),
                Restrict(Houses, {1}))
    /\ failing \in SUBSET Deliveries
    /\ tweet = NoTweet

NextFail ==
    \/ \E u \in Actors : create_article(u)
    \/ \E u \in Actors : subscribe_journalist(u)
    \/ \E u \in Actors : approve_article(u)

SpecFail == InitFail /\ [][NextFail]_vars

----------------------------------------------------------------------------
(* Requests served side by side.  A worker runs a view in two steps that   *)
(* other workers' steps can come between: the decorators and the lookup    *)
(* (get_object_or_404 reads the row into an instance of the worker), then  *)
(* the rest of the view on that instance.  There is no transaction,        *)
(* select_for_update or conditional update around the two.                 *)
Workers == {"w1", "w2"}

InFlight(op, user, pk, article) == [op |-> op, user |-> user, pk |-> pk, article |-> article]

Start(w, request) == [x \in DOMAIN reqs \cup {w} |-> IF x = w THEN request ELSE reqs[x]]

Done(w) == [x \in DOMAIN reqs \ {w} |-> reqs[x]]

(* views.py approve_article, through `article = get_object_or_404(...)` *)
approve_article_fetch(w, u) ==
    /\ w \notin DOMAIN reqs
    /\ UNCHANGED <<store, outbox, failing, tweet>>
    /\ IF ~is_editor(u)
       THEN /\ last' = Refused("approve_article")
            /\ UNCHANGED reqs
       ELSE \E pk \in ArticleIds :
              IF pk \notin DOMAIN articles
              THEN /\ last' = Served("approve_article", u, pk, "", Http404)
                   /\ UNCHANGED reqs
              ELSE /\ reqs' = Start(w, InFlight("approve_article", u, pk, articles[pk]))
                   /\ UNCHANGED last

(* views.py approve_article, from `if not article.approved:` to the        *)
(* redirect, on the instance fetched                                       *)
approve_article_finish(w) ==
    /\ w \in DOMAIN reqs
    /\ reqs[w].op = "approve_article"
    /\ UNCHANGED <<failing, tweet, newsletters, nextNewsletterId,
                   users, publishers, nextId, subscribed_publishers, subscribed_journalists>>
    /\ IF NeedsApproval(reqs[w].article)
       THEN /\ SaveArticle(reqs[w].pk, [reqs[w].article EXCEPT !.approved = TRUE])
            /\ PostToTwitter(reqs[w].pk)
       ELSE UNCHANGED <<articles, outbox>>
    /\ last' = Served("approve_article", reqs[w].user, reqs[w].pk, "",
                      redirect("editor_dashboard"))
    /\ reqs' = Done(w)

(* publisher.save() of a request whose form was valid when it was checked, *)
(* on a table that has a row with the name by now: the INSERT raises       *)
(* IntegrityError, which register_publisher does not catch                 *)
IntegrityError == Resp(500, "IntegrityError: duplicate entry for Publisher.name")

InFlightPublisher(user, form) ==
    [op |-> "register_publisher", user |-> user, form |-> form]

(* views.py register_publisher, through `if form.is_valid():` *)
register_publisher_validate(w, u) ==
    /\ w \notin DOMAIN reqs
    /\ UNCHANGED <<store, outbox, failing, tweet>>
    /\ IF ~is_publisher(u)
       THEN /\ last' = Refused("register_publisher")
            /\ UNCHANGED reqs
       ELSE \E request \in PublisherRequests :
              IF request.method = "POST" /\ PublisherFormValid(request.form)
              THEN /\ reqs' = Start(w, InFlightPublisher(u, request.form))
                   /\ UNCHANGED last
              ELSE /\ last' = Served("register_publisher", u, 0, "",
                                     render("register_publisher.html"))
                   /\ UNCHANGED reqs

(* views.py register_publisher, from `publisher = form.save(commit=False)` *)
(* to the redirect                                                         *)
register_publisher_save(w) ==
    /\ w \in DOMAIN reqs
    /\ reqs[w].op = "register_publisher"
    /\ UNCHANGED <<users, articles, nextId, newsletters, nextNewsletterId,
                   subscribed_publishers, subscribed_journalists, outbox, failing, tweet>>
    /\ IF NameTaken(reqs[w].form.name)
       THEN /\ last' = Served("register_publisher", reqs[w].user, 0, "", IntegrityError)
            /\ UNCHANGED publishers
       ELSE /\ InsertPublisher(NewPublisher(reqs[w].form, reqs[w].user))
            /\ last' = Saved("register_publisher", reqs[w].user, NextPublisherId,
                             redirect("home"), reqs[w].form)
    /\ reqs' = Done(w)

NextPubConc ==
    \/ \E w \in Workers, u \in Actors : register_publisher_validate(w, u)
    \/ \E w \in Workers : register_publisher_save(w)

SpecPubConc == InitPub /\ [][NextPubConc]_vars

NextConc ==
    \/ \E u \in Actors : create_article(u)
    \/ \E u \in Actors : subscribe_journalist(u)
    \/ \E w \in Workers, u \in Actors : approve_article_fetch(w, u)
    \/ \E w \in Workers : approve_article_finish(w)

SpecConc == Init /\ [][NextConc]_vars

(* views.py update_article, through `article = get_object_or_404(...)` *)
update_article_fetch(w, u) ==
    /\ w \notin DOMAIN reqs
    /\ UNCHANGED <<store, outbox, failing, tweet>>
    /\ IF ~is_editor(u)
       THEN /\ last' = Refused("update_article")
            /\ UNCHANGED reqs
       ELSE \E pk \in ArticleIds :
              IF pk \notin DOMAIN articles
              THEN /\ last' = Served("update_article", u, pk, "", Http404)
                   /\ UNCHANGED reqs
              ELSE /\ reqs' = Start(w, InFlight("update_article", u, pk, articles[pk]))
                   /\ UNCHANGED last

(* views.py journalist_article_update, through the lookup *)
journalist_article_update_fetch(w, u) ==
    /\ w \notin DOMAIN reqs
    /\ UNCHANGED <<store, outbox, failing, tweet>>
    /\ IF ~is_journalist(u)
       THEN /\ last' = Refused("journalist_article_update")
            /\ UNCHANGED reqs
       ELSE \E pk \in ArticleIds :
              IF ~OwnArticle(u, pk)
              THEN /\ last' = Served("journalist_article_update", u, pk, "", Http404)
                   /\ UNCHANGED reqs
              ELSE /\ reqs' = Start(w, InFlight("journalist_article_update", u, pk,
                                                articles[pk]))
                   /\ UNCHANGED last

(* the redirect of an update view *)
UpdateRedirect(op) ==
    IF op = "update_article"
    THEN redirect("editor_dashboard")
    ELSE redirect("journalist_article_list")

(* update_article and journalist_article_update from `if request.method == *)
(* "POST":` on: the form is laid over the instance fetched, and save()     *)
(* writes every field of that instance, approved included.  (The author    *)
(* update_article assigns is the instance's own.)                          *)
article_update_finish(w) ==
    /\ w \in DOMAIN reqs
    /\ reqs[w].op \in {"update_article", "journalist_article_update"}
    /\ UNCHANGED <<failing, tweet, newsletters, nextNewsletterId, users, publishers, nextId,
                   subscribed_publishers, subscribed_journalists,
                   tweetAttempts, tweetsPosted>>
    /\ \E request \in ArticleRequests(reqs[w].article.author) :
          IF request.method = "POST" /\ ArticleFormValid(request.form)
          THEN /\ SaveArticle(reqs[w].pk, ApplyArticleForm(reqs[w].article, request.form))
               /\ last' = Saved(reqs[w].op, reqs[w].user, reqs[w].pk,
                                UpdateRedirect(reqs[w].op), request.form)
          ELSE /\ last' = Served(reqs[w].op, reqs[w].user, reqs[w].pk, "",
                                 render("form.html"))
               /\ UNCHANGED <<articles, mailBatches, mailsSent, mailsDelivered>>
    /\ reqs' = Done(w)

(* views.py delete_article, through `article = get_object_or_404(...)` *)
delete_article_fetch(w, u) ==
    /\ w \notin DOMAIN reqs
    /\ UNCHANGED <<store, outbox, failing, tweet>>
    /\ IF ~is_editor(u)
       THEN /\ last' = Refused("delete_article")
            /\ UNCHANGED reqs
       ELSE \E pk \in ArticleIds :
              IF pk \notin DOMAIN articles
              THEN /\ last' = Served("delete_article", u, pk, "", Http404)
                   /\ UNCHANGED reqs
              ELSE /\ reqs' = Start(w, InFlight("delete_article", u, pk, articles[pk]))
                   /\ UNCHANGED last

(* views.py delete_article from `if request.method == "POST":` on:         *)
(* `if not article.approved` reads the instance fetched, and delete()      *)
(* removes the row of its pk.                                              *)
delete_article_finish(w) ==
    /\ w \in DOMAIN reqs
    /\ reqs[w].op = "delete_article"
    /\ UNCHANGED <<failing, tweet, nextNewsletterId, users, publishers, nextId,
                   subscribed_publishers, subscribed_journalists, outbox>>
    /\ \E request \in PlainRequests :
          IF request.method = "POST"
          THEN /\ IF EditorMayDelete(reqs[w].article)
                  THEN DeleteArticle(reqs[w].pk)
                  ELSE UNCHANGED <<articles, newsletters>>
               /\ last' = Served("delete_article", reqs[w].user, reqs[w].pk, "",
                                 redirect("editor_dashboard"))
          ELSE /\ last' = Served("delete_article", reqs[w].user, reqs[w].pk, "",
                                 render("confirm_delete.html"))
               /\ UNCHANGED <<articles, newsletters>>
    /\ reqs' = Done(w)

NextRace ==
    \/ \E u \in Actors : create_article(u)
    \/ \E w \in Workers, u \in Actors : approve_article_fetch(w, u)
    \/ \E w \in Workers : approve_article_finish(w)
    \/ \E w \in Workers, u \in Actors : update_article_fetch(w, u)
    \/ \E w \in Workers, u \in Actors : journalist_article_update_fetch(w, u)
    \/ \E w \in Workers : article_update_finish(w)
    \/ \E w \in Workers, u \in Actors : delete_article_fetch(w, u)
    \/ \E w \in Workers : delete_article_finish(w)

SpecRace == Init /\ [][NextRace]_vars

(* the article views and the follow of a journalist: one reader, one       *)
(* journalist, one editor and the owner of the one publisher               *)
InitGate ==
    /\ InitWith(Restrict(Accounts, {"r1", "j1", "e1", "p1"}), Restrict(Houses, {1}))
    /\ failing = {}
    /\ tweet = NoTweet

NextGate ==
    \/ \E u \in Actors : create_article(u)
    \/ \E u \in Actors : journalist_article_update(u)
    \/ \E u \in Actors : journalist_article_delete(u)
    \/ \E u \in Actors : approve_article(u)
    \/ \E u \in Actors : update_article(u)
    \/ \E u \in Actors : delete_article(u)
    \/ \E u \in Actors : subscribe_journalist(u)

SpecGate == InitGate /\ [][NextGate]_vars

(* the desk of two houses and the public page: a reader who subscribes to  *)
(* publishers, a journalist, an editor                                     *)
InitHome ==
    /\ InitWith(Restrict(Accounts, {"r1", "j1", "e1"}), Houses)
    /\ failing = {}
    /\ tweet = NoTweet

NextHome ==
    \/ \E u \in Actors : create_article(u)
    \/ \E u \in Actors : journalist_article_update(u)
    \/ \E u \in Actors : update_article(u)
    \/ \E u \in Actors : approve_article(u)
    \/ \E u \in Actors : subscribe_publisher(u)
    \/ \E u \in Actors : home(u)

SpecHome == InitHome /\ [][NextHome]_vars

(* one call of post_to_twitter on every input: a prefix of any length up   *)
(* to the bound, a title the column admits, a url of the scheme, a domain  *)
(* and a path                                                              *)
InitTweet ==
    /\ InitWith(Restrict(Accounts, {"j1", "e1"}), Restrict(Houses, {1}))
    /\ failing = {}
    /\ \E settings \in TwitterSettings, prefix \in 0..MaxPrefixLen,
          title \in 0..MaxTitleLen, url \in (SchemeLen + 2)..MaxUrlLen :
            tweet = Tweet(settings, prefix, title, url)

NextTweet == post_to_twitter

SpecTweet == InitTweet /\ [][NextTweet]_vars

----------------------------------------------------------------------------
(* Properties *)

Editor(u) == role_of(u) = "editor"

Reader(u) == role_of(u) = "reader"

(* an account whose role is journalist *)
IsJournalistAccount(id) == id \in DOMAIN users /\ users[id].role = "journalist"

(* the followers of an article's author who have an e-mail address *)
MailedFollowers(pk) ==
    {f \in DOMAIN users :
        users[f].email # "" /\ articles[pk].author \in subscribed_journalists[f]}

(* C1: an editor's approve_article of a Pending article sets approved and  *)
(* hands the transports exactly one batch (one run of the mailing loop     *)
(* over the author's followers with an address, one post_to_twitter        *)
(* call); an editor's approve_article of an Approved article, as the       *)
(* second of two requests is, changes neither the store nor the            *)
(* transports.                                                             *)
C1_ApproveTwice ==
    [][\A u \in Actors :
          (/\ last'.op = "approve_article"
           /\ Editor(u)
           /\ last'.pk \in DOMAIN articles
           /\ approve_article(u)) =>
             LET pk == last'.pk IN
             IF ~articles[pk].approved
             THEN /\ articles' = [articles EXCEPT ![pk].approved = TRUE]
                  /\ mailBatches' = [mailBatches EXCEPT ![pk] = @ + 1]
                  /\ mailsSent' = [mailsSent EXCEPT ![pk] = @ + Cardinality(MailedFollowers(pk))]
                  /\ tweetAttempts' = [tweetAttempts EXCEPT ![pk] = @ + 1]
             ELSE UNCHANGED <<store, outbox>>]_vars

C1_Approved ==
    /\ last.op = "approve_article"
    /\ last.resp = redirect("editor_dashboard")
    /\ last.pk \in DOMAIN articles
    /\ articles[last.pk].approved
    /\ mailBatches[last.pk] = 1
    /\ mailsSent[last.pk] = 1
    /\ tweetAttempts[last.pk] = 1

(* C2: the mail transport is handed a message about an article only by a   *)
(* step that takes its approved flag from false to true; no other save of  *)
(* the article sends a follower anything.                                  *)
C2_MailOnlyAtApproval ==
    [][\A pk \in ArticleIds :
          mailsSent'[pk] # mailsSent[pk] =>
             /\ pk \in DOMAIN articles
             /\ ~articles[pk].approved
             /\ pk \in DOMAIN articles'
             /\ articles'[pk].approved]_vars

(* C3: of approve_article requests served side by side, one that mails     *)
(* the followers is one that finds the row Pending in the store when it    *)
(* writes: no request mails them about an article already approved.        *)
C3_ConcurrentApproveOnce ==
    [][\A w \in Workers :
          (/\ approve_article_finish(w)
           /\ mailsSent' # mailsSent) =>
             /\ reqs[w].pk \in DOMAIN articles
             /\ ~articles[reqs[w].pk].approved]_vars

(* C4: an article that is approved stays approved in every step that       *)
(* leaves it in the store.                                                 *)
C4_ApprovalOneWay ==
    [][\A pk \in ArticleIds :
          (pk \in DOMAIN articles /\ articles[pk].approved /\ pk \in DOMAIN articles') =>
             articles'[pk].approved]_vars

C4_UpdatedWhileApproved ==
    /\ last.op \in {"update_article", "journalist_article_update"}
    /\ last.resp.status = 302
    /\ last.pk \in DOMAIN articles
    /\ articles[last.pk].approved
    /\ articles[last.pk].content = "x"

(* an editor's delete_article POST for a row of the store: the request of  *)
(* delete_article that is answered neither 404 nor with the confirmation   *)
(* page a GET is answered with                                             *)
DeletePost(u) ==
    /\ last'.op = "delete_article"
    /\ Editor(u)
    /\ last'.pk \in DOMAIN articles
    /\ last'.resp # render("confirm_delete.html")
    /\ delete_article(u)

SubscriptionViews ==
    {"subscribe_publisher", "unsubscribe_publisher",
     "subscribe_journalist", "unsubscribe_journalist"}

(* C6: a subscription request of an actor who is no reader (an editor, a   *)
(* journalist, a publisher, nobody logged in) is turned away to the login  *)
(* page and leaves every user's two subscription sets as they were.        *)
C6_NonReaderRefused ==
    [][\A u \in Actors :
          (/\ last'.op \in SubscriptionViews
           /\ ~Reader(u)
           /\ \/ subscribe_publisher(u)
              \/ unsubscribe_publisher(u)
              \/ subscribe_journalist(u)
              \/ unsubscribe_journalist(u)) =>
             /\ last'.resp = LoginRedirect
             /\ UNCHANGED <<subscribed_publishers, subscribed_journalists>>]_vars

C6_RefusedWhileSubscribed ==
    /\ last.op \in SubscriptionViews
    /\ last.resp = LoginRedirect
    /\ subscribed_publishers["r1"] = {1}
    /\ subscribed_journalists["r2"] = {"j2"}

(* C7: for a reader, subscribing adds the target to the set and, when the  *)
(* target is already there, leaves the set as it is; unsubscribing removes *)
(* it and, when it is not there, leaves the set as it is; each answers     *)
(* with the redirect to the subscriptions page, never an error.  So a      *)
(* second subscribe (unsubscribe) ends in the set the first one made.      *)
C7_SubscriptionsIdempotent ==
    [][\A u \in Actors :
          (Reader(u) /\ last'.op \in SubscriptionViews) =>
             LET pk == last'.pk
                 j  == last'.target
             IN
             /\ (pk \in DOMAIN publishers /\ subscribe_publisher(u)) =>
                   /\ subscribed_publishers'[u] = subscribed_publishers[u] \cup {pk}
                   /\ pk \in subscribed_publishers[u] => UNCHANGED subscribed_publishers
                   /\ last'.resp = redirect("subscriptions")
             /\ (pk \in DOMAIN publishers /\ unsubscribe_publisher(u)) =>
                   /\ subscribed_publishers'[u] = subscribed_publishers[u] \ {pk}
                   /\ pk \notin subscribed_publishers[u] => UNCHANGED subscribed_publishers
                   /\ last'.resp = redirect("subscriptions")
             /\ (IsJournalistAccount(j) /\ subscribe_journalist(u)) =>
                   /\ subscribed_journalists'[u] = subscribed_journalists[u] \cup {j}
                   /\ j \in subscribed_journalists[u] => UNCHANGED subscribed_journalists
                   /\ last'.resp = redirect("subscriptions")
             /\ (IsJournalistAccount(j) /\ unsubscribe_journalist(u)) =>
                   /\ subscribed_journalists'[u] = subscribed_journalists[u] \ {j}
                   /\ j \notin subscribed_journalists[u] => UNCHANGED subscribed_journalists
                   /\ last'.resp = redirect("subscriptions")]_vars

C7_UnsubscribedOneOfTwo ==
    /\ last.op = "unsubscribe_publisher"
    /\ last.resp = redirect("subscriptions")
    /\ last.user = "r1"
    /\ last.pk = 1
    /\ subscribed_publishers["r1"] = {2}
    /\ subscribed_journalists["r1"] = {"j1", "j2"}

(* C8: a reader's subscribe_journalist or unsubscribe_journalist whose     *)
(* journalist_id is an account of another role, or no account, is answered *)
(* 404 and leaves the subscribed_journalists sets as they were.            *)
C8_NonJournalistNotFound ==
    [][\A u \in Actors :
          (/\ last'.op \in {"subscribe_journalist", "unsubscribe_journalist"}
           /\ Reader(u)
           /\ ~IsJournalistAccount(last'.target)
           /\ subscribe_journalist(u) \/ unsubscribe_journalist(u)) =>
             /\ last'.resp = Http404
             /\ UNCHANGED subscribed_journalists]_vars

C8_EditorNotFound ==
    /\ last.op = "subscribe_journalist"
    /\ last.resp = Http404
    /\ last.target = "e1"
    /\ Reader(last.user)
    /\ subscribed_journalists[last.user] = {"j1"}

(* the pks 1..MaxArticles, most recent first *)
InSubscriptions(u, pk) ==
    /\ pk \in DOMAIN articles
    /\ articles[pk].approved
    /\ \/ articles[pk].publisher \in subscribed_publishers[u]
       \/ articles[pk].author \in subscribed_journalists[u]

SubscribedListing(u) == SelectSeq(NewestFirst, LAMBDA pk : InSubscriptions(u, pk))

(* C9: the listing a reader with subscriptions is answered with is the     *)
(* approved articles of the subscribed publishers and followed             *)
(* journalists, each once, most recent first: an article of a followed     *)
(* journalist is in it once approved, not before.                          *)
C9_ListSubscribed ==
    (/\ last.op = "get_subscribed_articles"
     /\ Reader(last.user)
     /\ subscribed_journalists[last.user] # {}) =>
        /\ last.resp.status = 200
        /\ last.resp.data = SubscribedListing(last.user)

(* C10: GET /api/subscribed-articles/ answers an account that is no reader *)
(* 403 with the detail "Only readers can access subscribed articles.", and *)
(* a reader without subscriptions 200 with an empty array.                 *)
C10_SubscribedArticlesApi ==
    (last.op = "get_subscribed_articles" /\ last.user \in DOMAIN users) =>
        IF ~Reader(last.user)
        THEN /\ last.resp.status = 403
             /\ last.resp.detail = "Only readers can access subscribed articles."
        ELSE (subscribed_publishers[last.user] = {} /\ subscribed_journalists[last.user] = {}) =>
                (last.resp.status = 200 /\ last.resp.data = <<>>)

(* C11: an editor's update_article that is saved leaves the article's      *)
(* author as it was, whatever author the posted data names, and sets the   *)
(* content (with the title and the publisher) to the posted value.         *)
C11_EditorUpdateKeepsAuthor ==
    [][(/\ last'.op = "update_article"
        /\ last'.resp = redirect("editor_dashboard")) =>
          LET pk == last'.pk IN
          /\ pk \in DOMAIN articles
          /\ pk \in DOMAIN articles'
          /\ articles'[pk].author = articles[pk].author
          /\ articles'[pk].content = last'.posted.content
          /\ articles'[pk].title = last'.posted.title
          /\ articles'[pk].publisher = last'.posted.publisher]_vars

C11_PostedOtherAuthor ==
    /\ last.op = "update_article"
    /\ Editor(last.user)
    /\ last.posted.author = "j2"
    /\ last.posted.content = "x"
    /\ last.pk \in DOMAIN articles
    /\ articles[last.pk].author = "j1"
    /\ articles[last.pk].content = "x"

UpdateViews == {"journalist_article_update", "update_article"}

(* the fields ArticleForm edits *)
Edited(article) == <<article.title, article.content, article.publisher>>

(* C12: a step that changes the title, content or publisher of an article  *)
(* is an update request of its author or of an editor; an update request   *)
(* of anybody else (a journalist who is not the author, a reader, a        *)
(* publisher, nobody logged in) is answered with the redirect to the login *)
(* page or with 404 and leaves every article as it was.                    *)
C12_UpdateOnlyAuthorOrEditor ==
    [][/\ \A pk \in DOMAIN articles :
             (pk \in DOMAIN articles' /\ Edited(articles'[pk]) # Edited(articles[pk])) =>
                /\ last'.op \in UpdateViews
                /\ last'.pk = pk
                /\ last'.user = articles[pk].author \/ Editor(last'.user)
       /\ \A u \in Actors :
             (/\ last'.op \in UpdateViews
              /\ ~Editor(u)
              /\ ~(last'.pk \in DOMAIN articles /\ articles[last'.pk].author = u)
              /\ journalist_article_update(u) \/ update_article(u)) =>
                /\ last'.resp \in {LoginRedirect, Http404}
                /\ articles' = articles]_vars

C12_OtherJournalistNotFound ==
    /\ last.op = "journalist_article_update"
    /\ last.user = "j2"
    /\ last.resp = Http404
    /\ last.pk \in DOMAIN articles
    /\ articles[last.pk].author = "j1"
    /\ articles[last.pk].approved

(* C13: a journalist's journalist_article_delete POST for an article of    *)
(* their own removes it, approved or not; for an article of another        *)
(* journalist the request is answered 404 and every article stays.         *)
C13_AuthorDeletesOwn ==
    [][\A u \in Actors :
          (/\ last'.op = "journalist_article_delete"
           /\ role_of(u) = "journalist"
           /\ last'.pk \in DOMAIN articles
           /\ last'.resp # render("confirm_delete.html")
           /\ journalist_article_delete(u)) =>
             IF articles[last'.pk].author = u
             THEN /\ last'.pk \notin DOMAIN articles'
                  /\ last'.resp = redirect("journalist_article_list")
             ELSE /\ articles' = articles
                  /\ last'.resp = Http404]_vars

C13_ApprovedDeletedByAuthor ==
    /\ last.op = "journalist_article_delete"
    /\ last.resp = redirect("journalist_article_list")
    /\ last.pk \notin DOMAIN articles
    /\ mailBatches[last.pk] >= 1
    /\ tweetAttempts[last.pk] = 1

(* C14: a step that takes an article's approved flag from false to true is *)
(* an approve_article request of an editor; an approve_article request of  *)
(* anybody else (a reader, a journalist, a publisher, nobody logged in) is *)
(* answered with the redirect to the login page, leaves every article as   *)
(* it was and hands nothing to the transports.                             *)
C14_OnlyEditorApproves ==
    [][/\ \A pk \in DOMAIN articles :
             (~articles[pk].approved /\ pk \in DOMAIN articles' /\ articles'[pk].approved) =>
                /\ last'.op = "approve_article"
                /\ last'.pk = pk
                /\ Editor(last'.user)
       /\ \A u \in Actors :
             (/\ last'.op = "approve_article"
              /\ ~Editor(u)
              /\ approve_article(u)) =>
                /\ last'.resp = LoginRedirect
                /\ UNCHANGED <<articles, outbox>>]_vars

C14_RefusedWhilePending ==
    /\ last = Refused("approve_article")
    /\ 1 \in DOMAIN articles
    /\ ~articles[1].approved
    /\ subscribed_journalists["r1"] = {articles[1].author}
    /\ mailsSent[1] = 0

(* C15: whichever deliveries fail, an editor's approve_article of a        *)
(* Pending article leaves it approved in the store, calls send_mail for    *)
(* every follower of the author with an address and post_to_twitter once,  *)
(* and answers with the redirect to the editor dashboard.                  *)
C15_ApprovalSurvivesFailures ==
    [][\A u \in Actors :
          (/\ last'.op = "approve_article"
           /\ Editor(u)
           /\ last'.pk \in DOMAIN articles
           /\ ~articles[last'.pk].approved
           /\ approve_article(u)) =>
             LET pk == last'.pk IN
             /\ pk \in DOMAIN articles'
             /\ articles'[pk].approved
             /\ mailsSent'[pk] = mailsSent[pk] + Cardinality(MailedFollowers(pk))
             /\ mailsDelivered'[pk] =
                    mailsDelivered[pk] + Cardinality(MailedFollowers(pk) \ failing)
             /\ tweetAttempts'[pk] = tweetAttempts[pk] + 1
             /\ last'.resp = redirect("editor_dashboard")]_vars

C15_OneMailAndTweetFailed ==
    /\ last.op = "approve_article"
    /\ last.resp = redirect("editor_dashboard")
    /\ failing = {"r1", "twitter"}
    /\ last.pk \in DOMAIN articles
    /\ articles[last.pk].approved
    /\ mailsSent[last.pk] = 2
    /\ mailsDelivered[last.pk] = 1
    /\ tweetAttempts[last.pk] = 1
    /\ tweetsPosted[last.pk] = 0

(* C16: a newsletter_update or newsletter_delete request of an actor who   *)
(* is not the author of the newsletter of the url leaves every newsletter, *)
(* its author and its articles included, as it was.                        *)
C16_NewsletterAuthorOnly ==
    [][\A u \in Actors :
          (/\ last'.op \in {"newsletter_update", "newsletter_delete"}
           /\ last'.pk \in DOMAIN newsletters
           /\ newsletters[last'.pk].author # u
           /\ newsletter_update(u) \/ newsletter_delete(u)) =>
             newsletters' = newsletters]_vars

(* C18: a step that adds a Publisher row is a register_publisher request   *)
(* of a user with role publisher, and the row's owner is that user,        *)
(* whatever owner the posted data names; a register_publisher request of   *)
(* anybody else adds no row; so the owner of every Publisher row has role  *)
(* publisher.                                                              *)
C18_PublisherOwnedByCaller ==
    [][/\ \A p \in DOMAIN publishers' \ DOMAIN publishers :
             /\ last'.op = "register_publisher"
             /\ role_of(last'.user) = "publisher"
             /\ publishers'[p].owner = last'.user
       /\ \A u \in Actors :
             (/\ last'.op = "register_publisher"
              /\ role_of(u) # "publisher"
              /\ register_publisher(u)) =>
                /\ last'.resp = LoginRedirect
                /\ publishers' = publishers
       /\ \A p \in DOMAIN publishers' : role_of(publishers'[p].owner) = "publisher"]_vars

C18_PostedReaderAsOwner ==
    /\ last.op = "register_publisher"
    /\ last.resp = redirect("home")
    /\ last.posted.owner = "r1"
    /\ last.pk \in DOMAIN publishers
    /\ publishers[last.pk].name = last.posted.name
    /\ publishers[last.pk].owner = "p1"

(* C19: no two Publisher rows have the same name, and a register_publisher *)
(* request that comes to write a name a row already has, after a request   *)
(* served beside it wrote it too, is answered with the form and its        *)
(* validation error and adds no row.                                       *)
C19_UniqueNameValidated ==
    [][/\ \A p, q \in DOMAIN publishers' :
             publishers'[p].name = publishers'[q].name => p = q
       /\ \A w \in Workers :
             (/\ w \in DOMAIN reqs
              /\ reqs[w].op = "register_publisher"
              /\ NameTaken(reqs[w].form.name)
              /\ register_publisher_save(w)) =>
                /\ last'.resp = render("register_publisher.html")
                /\ publishers' = publishers]_vars

(* the views that write to the store, each with the roles it is for *)
AllowedRoles(op) ==
    CASE op \in {"create_article", "journalist_article_update", "journalist_article_delete",
                 "newsletter_create", "newsletter_update", "newsletter_delete"}
            -> {"journalist"}
      [] op \in {"approve_article", "update_article", "delete_article"} -> {"editor"}
      [] op = "register_publisher" -> {"publisher"}
      [] op \in SubscriptionViews -> {"reader"}
      [] OTHER -> {"reader", "journalist", "editor", "publisher", "none"}

ViewStep(op, u) ==
    CASE op = "create_article" -> create_article(u)
      [] op = "journalist_article_update" -> journalist_article_update(u)
      [] op = "journalist_article_delete" -> journalist_article_delete(u)
      [] op = "newsletter_create" -> newsletter_create(u)
      [] op = "newsletter_update" -> newsletter_update(u)
      [] op = "newsletter_delete" -> newsletter_delete(u)
      [] op = "approve_article" -> approve_article(u)
      [] op = "update_article" -> update_article(u)
      [] op = "delete_article" -> delete_article(u)
      [] op = "register_publisher" -> register_publisher(u)
      [] op = "subscribe_publisher" -> subscribe_publisher(u)
      [] op = "unsubscribe_publisher" -> unsubscribe_publisher(u)
      [] op = "subscribe_journalist" -> subscribe_journalist(u)
      [] op = "unsubscribe_journalist" -> unsubscribe_journalist(u)
      [] OTHER -> FALSE

(* C17: a request for a view that writes articles, newsletters, publishers *)
(* or subscriptions, sent by nobody logged in or by a user whose role is   *)
(* not one the view is for, is answered with the redirect to the login     *)
(* page and leaves the store as it was.                                    *)
C17_MutationsGated ==
    [][\A u \in Actors :
          (/\ role_of(u) \notin AllowedRoles(last'.op)
           /\ ViewStep(last'.op, u)) =>
             /\ last'.resp = LoginRedirect
             /\ UNCHANGED store]_vars

(* C20: an article that create_article saved has the caller, a journalist, *)
(* as author and approved false, whatever author and approved the posted   *)
(* data names, and the posted title, content and publisher; and the author *)
(* of every article has role journalist.                                   *)
C20_CreatedPendingByCaller ==
    /\ (last.op = "create_article" /\ last.resp = redirect("journalist_article_list")) =>
          /\ last.pk \in DOMAIN articles
          /\ role_of(last.user) = "journalist"
          /\ articles[last.pk] =
                [title |-> last.posted.title, content |-> last.posted.content,
                 publisher |-> last.posted.publisher, author |-> last.user,
                 approved |-> FALSE]
    /\ \A pk \in DOMAIN articles : role_of(articles[pk].author) = "journalist"

C20_PostedAuthorAndApproved ==
    /\ last.op = "create_article"
    /\ last.user = "j1"
    /\ last.posted.author = "j2"
    /\ last.posted.approved
    /\ last.pk \in DOMAIN articles
    /\ articles[last.pk].author = "j1"
    /\ ~articles[last.pk].approved

(* C21: every step leaves every user of the store in the store, with the   *)
(* role the user has: a role is the one the registration form carried.     *)
C21_RoleNeverChanges ==
    [][/\ \A u \in DOMAIN users :
             /\ u \in DOMAIN users'
             /\ users'[u].role = users[u].role
       /\ \A u \in DOMAIN users' \ DOMAIN users :
             /\ last'.op = "register"
             /\ last'.posted.username = u
             /\ users'[u].role = last'.posted.role]_vars

C21_RegisteredAndSubscribed ==
    /\ "n1" \in DOMAIN users
    /\ users["n1"].role = "reader"
    /\ subscribed_journalists["n1"] = {"j1"}
    /\ subscribed_publishers["n1"] = {1}
    /\ last.op = "register"
    /\ last.resp = render("register.html")

(* C26: only users with role reader have a subscription, every member of a *)
(* subscribed_journalists set is a user with role journalist, and no user  *)
(* is a member of their own set.                                           *)
C26_SubscriptionsWellFormed ==
    \A u \in DOMAIN users :
        /\ (subscribed_publishers[u] # {} \/ subscribed_journalists[u] # {}) =>
              users[u].role = "reader"
        /\ \A j \in subscribed_journalists[u] :
              j \in DOMAIN users /\ users[j].role = "journalist"
        /\ u \notin subscribed_journalists[u]

C26_SelfFollowNotFound ==
    /\ last.op = "subscribe_journalist"
    /\ last.user = "n1"
    /\ last.target = "n1"
    /\ last.resp = Http404
    /\ subscribed_journalists["n1"] = {"j1"}
    /\ subscribed_journalists["r1"] = {"j1"}

(* C22: of an update and an approve_article of one article served side by  *)
(* side, neither write is lost: the write of the update leaves the         *)
(* approved flag of the row as it is in the store, and the write of the    *)
(* approval leaves the row's title, content and publisher as they are in   *)
(* the store.                                                              *)
C22_NoLostWrite ==
    [][\A w \in Workers :
          /\ (/\ w \in DOMAIN reqs
              /\ reqs[w].op \in UpdateViews
              /\ reqs[w].pk \in DOMAIN articles
              /\ article_update_finish(w)) =>
                articles'[reqs[w].pk].approved = articles[reqs[w].pk].approved
          /\ (/\ w \in DOMAIN reqs
              /\ reqs[w].op = "approve_article"
              /\ reqs[w].pk \in DOMAIN articles
              /\ approve_article_finish(w)) =>
                Edited(articles'[reqs[w].pk]) = Edited(articles[reqs[w].pk])]_vars

(* C24: an editor's delete_article served beside an approve_article never  *)
(* removes an article that is approved in the store and whose followers    *)
(* were mailed.                                                            *)
C24_ApprovedSurvivesRacingDelete ==
    [][\A w \in Workers :
          (/\ w \in DOMAIN reqs
           /\ reqs[w].op = "delete_article"
           /\ delete_article_finish(w)) =>
             \A pk \in DOMAIN articles :
                (articles[pk].approved /\ mailBatches[pk] >= 1) =>
                   pk \in DOMAIN articles']_vars

(* C23: the text handed to client.create_tweet is never longer than 280    *)
(* characters, whatever the lengths of the prefix, the title (at most 200) *)
(* and the url.                                                            *)
C23_TweetWithinLimit ==
    tweet.result = "posted" => tweet.text <= TweetLimit

(* the filter of the subscribed listing, on one article *)
Follows(u, article) ==
    \/ article.publisher \in subscribed_publishers[u]
    \/ article.author \in subscribed_journalists[u]

(* a step of an update view that saved the form *)
SavedUpdate ==
    /\ last'.op \in UpdateViews
    /\ last'.resp \in {redirect("journalist_article_list"), redirect("editor_dashboard")}

(* a saved update of an article that is approved *)
SavedUpdateOfApproved ==
    /\ SavedUpdate
    /\ last'.pk \in DOMAIN articles
    /\ articles[last'.pk].approved

(* C25 as stated: a saved journalist_article_update or update_article of   *)
(* an approved article leaves it approved, in the public listing, and in   *)
(* the subscribed listing of every reader it was listed for.               *)
C25_EditedStaysInListings ==
    [][SavedUpdateOfApproved =>
          /\ articles'[last'.pk].approved
          /\ \A r \in DOMAIN users :
                (Reader(r) /\ Follows(r, articles[last'.pk])) =>
                    Follows(r, articles'[last'.pk])]_vars

(* C25, amended: a saved journalist_article_update or update_article       *)
(* leaves the approved flag of the article as it was, Pending or approved, *)
(* and home lists exactly the approved articles, newest first: an approved *)
(* article that is edited stays on the public page without a new approval. *)
C25_EditKeepsApproval ==
    [][/\ SavedUpdate =>
             /\ last'.pk \in DOMAIN articles
             /\ last'.pk \in DOMAIN articles'
             /\ articles'[last'.pk].approved = articles[last'.pk].approved
       /\ last'.op = "home" =>
             /\ \A pk \in ArticleIds :
                   (\E i \in DOMAIN last'.resp.data.articles :
                        last'.resp.data.articles[i] = pk)
                      <=> (pk \in DOMAIN articles' /\ articles'[pk].approved)
             /\ \A i, j \in DOMAIN last'.resp.data.articles :
                   i < j => last'.resp.data.articles[i] > last'.resp.data.articles[j]]_vars

(* the public page lists an article that was approved and then edited: its *)
(* followers were mailed at the approval and again at the saved edit.      *)
C25_EditedArticleOnHome ==
    /\ last.op = "home"
    /\ \E i \in DOMAIN last.resp.data.articles :
          LET pk == last.resp.data.articles[i] IN
          /\ articles[pk].approved
          /\ articles[pk].content = "x"
          /\ articles[pk].publisher = 2
          /\ mailBatches[pk] >= 2

====
